---- MODULE Spec2Model ----
(***************************************************************************)
(* LocalFileStore (server/storage/local/storage.go): a per-identity file   *)
(* store on the local file system.  The file system is a tree of nodes     *)
(* addressed by absolute paths (sequences of segments); Get, Put and       *)
(* Delete are the three handlers.  Spec runs the handlers one at a time;   *)
(* SpecRace runs two Put calls on the same file step by step.  The process *)
(* is taken to pass every permission check of the OS.                      *)
(***************************************************************************)
EXTENDS Integers, Sequences, FiniteSets, TLC

VARIABLES
  fs,        \* the file system: absolute path -> node
  last,      \* the last call that returned: its arguments and what it returned
  nops,      \* number of calls made so far
  w,         \* SpecRace, SpecRead: the two concurrent calls (position, offset, ...)
  finished   \* SpecRace: the calls in the order their copy loops finished

vars == <<fs, last, nops, w, finished>>

(***************************************************************************)
(* Bounds and input sets.                                                  *)
(***************************************************************************)
MaxOps == 2        \* calls per behaviour of Spec
ChunkLen == 1      \* bytes moved by one write of the copy loop (SpecRace)

CreatePerm == 420  \* 0644: os.Create's 0666 under the usual umask 022

IDs == {"a", "b"}
Root == <<"srv">>
RelPaths == {<<>>, <<"x">>, <<"y">>, <<"x", "y">>, <<"..", "b", "x">>}
Contents == {<<>>, <<1>>, <<2, 2>>}

\* A content source: the bytes it delivers, then end-of-file or an error.
Sources ==
  {[data |-> c, fails |-> FALSE] : c \in Contents}
    \cup {[data |-> <<1>>, fails |-> TRUE]}

\* fs.FileMode: the directory bit and the permission bits (0, 0600, dir|0700).
Modes ==
  {[dir |-> FALSE, perm |-> 0], [dir |-> FALSE, perm |-> 384],
   [dir |-> TRUE, perm |-> 448]}

\* The (source, mode) pairs Put is called with: every source with mode
\* 0600, one content with mode 0, and a directory mode with a source that
\* has bytes to offer.
PutInputs ==
  {<<s, [dir |-> FALSE, perm |-> 384]>> : s \in Sources}
    \cup {<<[data |-> <<1>>, fails |-> FALSE], [dir |-> FALSE, perm |-> 0]>>,
          <<[data |-> <<2, 2>>, fails |-> FALSE], [dir |-> TRUE, perm |-> 448]>>}

(***************************************************************************)
(* Nodes.  A file carries its bytes and permission bits, and two history   *)
(* fields: the bytes the most recent Put copied into it, and whether that  *)
(* Put returned no error.  Directory permission bits are set by            *)
(* storage.EnsureDir and modification times by the OS; neither is tracked. *)
(***************************************************************************)
DirNode == [kind |-> "dir"]

FileNode(content, perm, putN, putOk) ==
  [kind |-> "file", content |-> content, perm |-> perm,
   putN |-> putN, putOk |-> putOk]

(***************************************************************************)
(* Paths.                                                                  *)
(***************************************************************************)
IsPrefix(p, q) == Len(p) <= Len(q) /\ SubSeq(q, 1, Len(p)) = p

Parent(fp) == SubSeq(fp, 1, Len(fp) - 1)

Base(fp) == fp[Len(fp)]

Prefixes(fp) == {SubSeq(fp, 1, i) : i \in 0..Len(fp)}

\* filepath.Clean on a rooted path: ".." removes the segment before it and
\* is dropped at the root.
RECURSIVE Clean(_, _)
Clean(stack, rest) ==
  IF rest = <<>> THEN stack
  ELSE IF Head(rest) = ".."
       THEN Clean(IF stack = <<>> THEN <<>> ELSE Parent(stack), Tail(rest))
       ELSE Clean(Append(stack, Head(rest)), Tail(rest))

\* filepath.Join(lfs.Path, charmID, path)
Join(root, id, path) == Clean(<<>>, root \o <<id>> \o path)

(***************************************************************************)
(* The OS calls the handlers make.                                         *)
(***************************************************************************)
Exists(f, fp) == fp \in DOMAIN f

\* os.Stat: the first component that fails decides the error; ENOENT when
\* it is missing, ENOTDIR when the walk has to pass through a regular file.
Stat(f, fp) ==
  LET bad == {i \in 1..Len(fp) :
                LET q == SubSeq(fp, 1, i)
                IN  ~Exists(f, q) \/ (i < Len(fp) /\ f[q].kind = "file")}
  IN  IF bad = {} THEN "ok"
      ELSE LET i == CHOOSE j \in bad : \A k \in bad : j <= k
           IN  IF Exists(f, SubSeq(fp, 1, i)) THEN "ENOTDIR" ELSE "ENOENT"

\* os.MkdirAll
MkdirAll(f, fp) ==
  IF \E q \in Prefixes(fp) : Exists(f, q) /\ f[q].kind = "file"
  THEN [err |-> "ENOTDIR", fs |-> f]
  ELSE [err |-> "ok",
        fs |-> [q \in DOMAIN f \cup Prefixes(fp) |->
                  IF Exists(f, q) THEN f[q] ELSE DirNode]]

\* storage.EnsureDir: nothing to do when the path exists, else create it
\* and its missing parents.
EnsureDir(f, fp, mode) ==
  IF Stat(f, fp) = "ok" THEN [err |-> "ok", fs |-> f] ELSE MkdirAll(f, fp)

\* os.Create without O_TRUNC: an existing file keeps its bytes.
CreateNoTrunc(f, fp) ==
  LET e == Stat(f, fp)
  IN  IF e = "ok"
      THEN IF f[fp].kind = "dir" THEN [err |-> "EISDIR", fs |-> f]
           ELSE [err |-> "ok", fs |-> f]
      ELSE IF e = "ENOENT" /\ Stat(f, Parent(fp)) = "ok"
           THEN [err |-> "ok",
                 fs |-> (fp :> FileNode(<<>>, CreatePerm, 0, FALSE)) @@ f]
           ELSE [err |-> e, fs |-> f]

\* os.Create that puts an empty file in the place of a directory.
CreateOverDir(f, fp) ==
  LET e == Stat(f, fp)
  IN  IF e = "ok"
      THEN IF f[fp].kind = "dir"
           THEN [err |-> "ok",
                 fs |-> (fp :> FileNode(<<>>, CreatePerm, 0, FALSE)) @@
                          [q \in {r \in DOMAIN f : ~IsPrefix(fp, r)} |-> f[q]]]
           ELSE [err |-> "ok", fs |-> [f EXCEPT ![fp].content = <<>>]]
      ELSE IF e = "ENOENT" /\ Stat(f, Parent(fp)) = "ok"
           THEN [err |-> "ok",
                 fs |-> (fp :> FileNode(<<>>, CreatePerm, 0, FALSE)) @@ f]
           ELSE [err |-> e, fs |-> f]

\* os.Create: O_RDWR|O_CREATE|O_TRUNC, 0666.
Create(f, fp) ==
  LET e == Stat(f, fp)
  IN  IF e = "ok"
      THEN IF f[fp].kind = "dir" THEN [err |-> "EISDIR", fs |-> f]
           ELSE [err |-> "ok", fs |-> [f EXCEPT ![fp].content = <<>>]]
      ELSE IF e = "ENOENT" /\ Stat(f, Parent(fp)) = "ok"
           THEN [err |-> "ok",
                 fs |-> (fp :> FileNode(<<>>, CreatePerm, 0, FALSE)) @@ f]
           ELSE [err |-> e, fs |-> f]

\* One write of bytes at offset off of a file holding old (a gap reads 0).
WriteAt(old, off, bytes) ==
  LET n == IF Len(old) > off + Len(bytes) THEN Len(old) ELSE off + Len(bytes)
  IN  [i \in 1..n |->
         IF i > off /\ i <= off + Len(bytes) THEN bytes[i - off]
         ELSE IF i <= Len(old) THEN old[i] ELSE 0]

\* io.Copy(f, r) on a handle at offset 0: every byte the source delivers.
Copy(f, fp, src) ==
  [f EXCEPT ![fp].content = WriteAt(@, 0, src.data),
            ![fp].putN = Len(src.data),
            ![fp].putOk = ~src.fails]

\* f.Chmod(mode)
Chmod(f, fp, mode) == [f EXCEPT ![fp].perm = mode.perm]

\* os.RemoveAll (unlinkat-based): the node and everything below it go;
\* absence (ENOENT) is no error, a path through a regular file (ENOTDIR) is.
RemoveAll(f, fp) ==
  LET e == Stat(f, fp)
  IN  IF e = "ok"
      THEN [err |-> "ok",
            fs |-> [q \in {r \in DOMAIN f : ~IsPrefix(fp, r)} |-> f[q]]]
      ELSE IF e = "ENOENT" THEN [err |-> "ok", fs |-> f]
      ELSE [err |-> e, fs |-> f]

(***************************************************************************)
(* Get (lines 58-101).                                                     *)
(***************************************************************************)
\* A handle: the bytes it reads (of a file) or the listing document they
\* encode (of a directory), and what its Stat reports: the name and the
\* is-directory flag.
NoHandle ==
  [kind |-> "none", bytes |-> <<>>, doc |-> <<>>, isDir |-> FALSE,
   name |-> ""]

\* Every node below fp, at any depth.
ReadDirDeep(f, fp) == {q \in DOMAIN f : IsPrefix(fp, q) /\ q # fp}

\* f.ReadDir(0): the immediate children of the directory.
ReadDir(f, fp) == {q \in DOMAIN f : Parent(q) = fp /\ q # fp}

\* The orders in which the OS may hand out the entries of a directory.
Orders(S) ==
  {o \in [1..Cardinality(S) -> S] : \A i, j \in DOMAIN o : o[i] = o[j] => i = j}

\* An entry whose size is taken from the directory's own stat.
FileInfoOfDir(f, q) ==
  [name |-> Base(q), isDir |-> f[q].kind = "dir", size |-> 0,
   perm |-> IF f[q].kind = "file" THEN f[q].perm ELSE 0]

\* charm.FileInfo of one entry (lines 83-89).  The size and permission bits
\* of a directory entry are the platform's and are left 0.
FileInfoOf(f, q) ==
  [name |-> Base(q), isDir |-> f[q].kind = "dir",
   size |-> IF f[q].kind = "file" THEN Len(f[q].content) ELSE 0,
   perm |-> IF f[q].kind = "file" THEN f[q].perm ELSE 0]

\* The listing document: one entry per element of ord, in that order.
Listing(f, ord) == [i \in DOMAIN ord |-> FileInfoOf(f, ord[i])]

\* Get with a DirFile built without the file info of line 60: its Stat
\* fails, and no is-directory flag is reported.
GetResNilInfo(f, id, path, ord, fault) ==
  LET fp == Join(Root, id, path)
      e == Stat(f, fp)
  IN  IF e = "ENOENT"
      THEN [err |-> "NotFound", handle |-> NoHandle, leaked |-> 0]
      ELSE IF e # "ok"
      THEN [err |-> e, handle |-> NoHandle, leaked |-> 0]
      ELSE IF f[fp].kind = "dir"
      THEN IF fault
           THEN [err |-> "EIO", handle |-> NoHandle, leaked |-> 1]
           ELSE [err |-> "ok",
                 handle |-> [kind |-> "dir", bytes |-> <<>>,
                             doc |-> Listing(f, ord), isDir |-> FALSE,
                             name |-> ""],
                 leaked |-> 1]
      ELSE [err |-> "ok",
            handle |-> [kind |-> "file", bytes |-> f[fp].content,
                        doc |-> <<>>, isDir |-> FALSE, name |-> Base(fp)],
            leaked |-> 0]

\* Get(charmID, path) with the entries read in order ord; fault: ReadDir
\* fails.  leaked counts the handles the call opened and neither closed nor
\* returned.  A DirFile reports the os.Stat of line 60, a file handle its
\* own.
GetRes(f, id, path, ord, fault) ==
  LET fp == Join(Root, id, path)
      e == Stat(f, fp)
  IN  IF e = "ENOENT"
      THEN [err |-> "NotFound", handle |-> NoHandle, leaked |-> 0]
      ELSE IF e # "ok"
      THEN [err |-> e, handle |-> NoHandle, leaked |-> 0]
      ELSE IF f[fp].kind = "dir"
      THEN IF fault
           THEN [err |-> "EIO", handle |-> NoHandle, leaked |-> 1]
           ELSE [err |-> "ok",
                 handle |-> [kind |-> "dir", bytes |-> <<>>,
                             doc |-> Listing(f, ord), isDir |-> TRUE,
                             name |-> Base(fp)],
                 leaked |-> 1]
      ELSE [err |-> "ok",
            handle |-> [kind |-> "file", bytes |-> f[fp].content,
                        doc |-> <<>>, isDir |-> FALSE, name |-> Base(fp)],
            leaked |-> 0]

\* The orders Get may meet at (id, path): those of the children when the
\* path is a directory.
GetOrders(f, id, path) ==
  LET fp == Join(Root, id, path)
  IN  IF Stat(f, fp) = "ok" /\ f[fp].kind = "dir"
      THEN Orders(ReadDir(f, fp)) ELSE {<<>>}

\* ReadDir can fail only where it is called: on a directory.
GetFaults(f, id, path) ==
  LET fp == Join(Root, id, path)
  IN  IF Stat(f, fp) = "ok" /\ f[fp].kind = "dir" THEN BOOLEAN ELSE {FALSE}

(***************************************************************************)
(* Put (lines 105-127).                                                    *)
(***************************************************************************)
\* The directory branch made to create the parent only.
PutDirParent(f, fp, mode) == EnsureDir(f, Parent(fp), mode)

\* The directory branch (lines 107-109).
PutDir(f, fp, mode) == EnsureDir(f, fp, mode)

\* The copy with f.Chmod(mode) made before io.Copy instead of after it.
PutCopyChmodFirst(f, fp, src, mode) ==
  LET g == IF mode.perm # 0 THEN Chmod(f, fp, mode) ELSE f
  IN  [err |-> IF src.fails THEN "EIO" ELSE "ok", fs |-> Copy(g, fp, src),
       nread |-> Len(src.data), leaked |-> 0]

\* The copy with f.Chmod(mode) made whatever the mode, 0 included.
PutCopyChmodZero(f, fp, src, mode) ==
  IF src.fails
  THEN [err |-> "EIO", fs |-> Copy(f, fp, src), nread |-> Len(src.data),
        leaked |-> 0]
  ELSE [err |-> "ok", fs |-> Chmod(Copy(f, fp, src), fp, mode),
        nread |-> Len(src.data), leaked |-> 0]

\* io.Copy and what follows it (lines 119-126); the handle f is open and
\* the deferred f.Close() releases it on each return.
PutCopy(f, fp, src, mode) ==
  LET opened == 1
      closed == 1
  IN  IF src.fails
      THEN [err |-> "EIO", fs |-> Copy(f, fp, src), nread |-> Len(src.data),
            leaked |-> opened - closed]
      ELSE [err |-> "ok",
            fs |-> IF mode.perm # 0
                   THEN Chmod(Copy(f, fp, src), fp, mode)
                   ELSE Copy(f, fp, src),
            nread |-> Len(src.data), leaked |-> opened - closed]

\* os.Create and what follows it (lines 114-126).  When Create fails f is
\* nil, and the deferred f.Close() has nothing to release.
PutCreate(f, fp, src, mode) ==
  IF Create(f, fp).err # "ok"
  THEN [err |-> Create(f, fp).err, fs |-> f, nread |-> 0, leaked |-> 0]
  ELSE PutCopy(Create(f, fp).fs, fp, src, mode)

\* The file branch (lines 110-126).
PutFile(f, fp, src, mode) ==
  IF EnsureDir(f, Parent(fp), mode).err # "ok"
  THEN [err |-> EnsureDir(f, Parent(fp), mode).err, fs |-> f, nread |-> 0,
        leaked |-> 0]
  ELSE PutCreate(EnsureDir(f, Parent(fp), mode).fs, fp, src, mode)

\* Put(charmID, path, r, mode).  nread: bytes read from r; leaked: handles
\* the call opened and did not close.
PutRes(f, id, path, src, mode) ==
  IF mode.dir
  THEN [err |-> PutDir(f, Join(Root, id, path), mode).err,
        fs |-> PutDir(f, Join(Root, id, path), mode).fs,
        nread |-> 0, leaked |-> 0]
  ELSE PutFile(f, Join(Root, id, path), src, mode)

(***************************************************************************)
(* Delete (lines 130-137).                                                 *)
(***************************************************************************)
DeleteRes(f, id, path) == RemoveAll(f, Join(Root, id, path))

(***************************************************************************)
(* Spec: the handlers, one call at a time.                                 *)
(***************************************************************************)
NoSource == [data |-> <<>>, fails |-> FALSE]

NoMode == [dir |-> FALSE, perm |-> 0]

\* What os.Stat says of fp before a call: the error, the kind, the size.
Pre(f, fp) ==
  LET e == Stat(f, fp)
  IN  [err |-> e,
       kind |-> IF e = "ok" THEN f[fp].kind ELSE "none",
       size |-> IF e = "ok" /\ f[fp].kind = "file"
                THEN Len(f[fp].content) ELSE 0]

\* The file system NewLocalFileStore leaves: the root directory exists.
Fresh == (<<>> :> DirNode) @@ (Root :> DirNode)

Idle == [i \in {1, 2} |-> [pc |-> "idle"]]

\* NewLocalFileStore: the root directory exists.
Init ==
  /\ fs = Fresh
  /\ last = [op |-> "none"]
  /\ nops = 0
  /\ w = Idle
  /\ finished = <<>>

\* Get that first makes sure the identity's namespace directory exists.
GetEnsuring(id, path, ord, fault) ==
  /\ nops < MaxOps
  /\ \E r \in {GetRes(fs, id, path, ord, fault)} :
         last' = [op |-> "Get", id |-> id, path |-> path, src |-> NoSource,
                  mode |-> NoMode, fp |-> Join(Root, id, path),
                  pre |-> Pre(fs, Join(Root, id, path)),
                  err |-> r.err, handle |-> r.handle,
                  leaked |-> r.leaked, nread |-> 0]
  /\ fs' = MkdirAll(fs, Root \o <<id>>).fs
  /\ nops' = nops + 1
  /\ UNCHANGED <<w, finished>>

Get(id, path, ord, fault) ==
  /\ nops < MaxOps
  /\ \E r \in {GetRes(fs, id, path, ord, fault)} :
         last' = [op |-> "Get", id |-> id, path |-> path, src |-> NoSource,
                  mode |-> NoMode, fp |-> Join(Root, id, path),
                  pre |-> Pre(fs, Join(Root, id, path)),
                  err |-> r.err, handle |-> r.handle,
                  leaked |-> r.leaked, nread |-> 0]
  /\ nops' = nops + 1
  /\ UNCHANGED <<fs, w, finished>>

Put(id, path, src, mode) ==
  /\ nops < MaxOps
  /\ \E r \in {PutRes(fs, id, path, src, mode)} :
         /\ fs' = r.fs
         /\ last' = [op |-> "Put", id |-> id, path |-> path, src |-> src,
                     mode |-> mode, fp |-> Join(Root, id, path),
                     pre |-> Pre(fs, Join(Root, id, path)),
                     err |-> r.err, handle |-> NoHandle,
                     leaked |-> r.leaked, nread |-> r.nread]
  /\ nops' = nops + 1
  /\ UNCHANGED <<w, finished>>

Delete(id, path) ==
  /\ nops < MaxOps
  /\ \E r \in {DeleteRes(fs, id, path)} :
         /\ fs' = r.fs
         /\ last' = [op |-> "Delete", id |-> id, path |-> path,
                     src |-> NoSource, mode |-> NoMode,
                     fp |-> Join(Root, id, path),
                     pre |-> Pre(fs, Join(Root, id, path)),
                     err |-> r.err, handle |-> NoHandle,
                     leaked |-> 0, nread |-> 0]
  /\ nops' = nops + 1
  /\ UNCHANGED <<w, finished>>

Next ==
  \/ nops < MaxOps /\ \E id \in IDs, path \in RelPaths :
       \E ord \in GetOrders(fs, id, path), fault \in GetFaults(fs, id, path) :
         Get(id, path, ord, fault)
  \/ \E id \in IDs, path \in RelPaths, in \in PutInputs :
       Put(id, path, in[1], in[2])
  \/ \E id \in IDs, path \in RelPaths : Delete(id, path)

Spec == Init /\ [][Next]_vars

(***************************************************************************)
(* SpecRace: two Put calls for the same file, each in its own goroutine,   *)
(* taken one OS call at a time (lines 110-126).  Each call has its own     *)
(* handle and offset; nothing orders the two.                              *)
(***************************************************************************)
Writers == {1, 2}

RaceID == "a"

RacePath == <<"x">>

RaceFile == Join(Root, RaceID, RacePath)

\* The stores the race starts from: the fresh one, and those one earlier
\* Put of the file leaves.
RaceStores ==
  {Fresh} \cup
    {PutRes(Fresh, RaceID, RacePath, [data |-> c, fails |-> FALSE],
            [dir |-> FALSE, perm |-> 0]).fs : c \in Contents}

Other(i) == 3 - i

\* The call has no write of its copy loop left to make.
NoWriteLeft(j) ==
  \/ w[j].pc \in {"chmod", "done"}
  \/ w[j].pc = "copy" /\ w[j].off = Len(w[j].src.data)

InitRace ==
  /\ fs \in RaceStores
  /\ w \in [Writers ->
             [pc : {"ensure"},
              src : {s \in Sources : ~s.fails},
              mode : {m \in Modes : ~m.dir},
              off : {0}, err : {"ok"}, clean : {FALSE}]]
  /\ finished = <<>>
  /\ last = [op |-> "none"]
  /\ nops = 0

\* storage.EnsureDir(filepath.Dir(fp), mode)
RaceEnsure(i) ==
  /\ w[i].pc = "ensure"
  /\ LET d == EnsureDir(fs, Parent(RaceFile), w[i].mode)
     IN  /\ fs' = d.fs
         /\ w' = [w EXCEPT ![i].pc = IF d.err = "ok" THEN "create" ELSE "done",
                           ![i].err = d.err]
  /\ UNCHANGED <<finished, last, nops>>

\* os.Create(fp); clean records that the other call had no write left.
RaceCreate(i) ==
  /\ w[i].pc = "create"
  /\ LET c == Create(fs, RaceFile)
     IN  /\ fs' = c.fs
         /\ w' = [w EXCEPT ![i].pc = IF c.err = "ok" THEN "copy" ELSE "done",
                           ![i].err = c.err,
                           ![i].clean = NoWriteLeft(Other(i))]
  /\ UNCHANGED <<finished, last, nops>>

\* One turn of io.Copy's loop: the next ChunkLen bytes, at the handle's offset.
RaceWrite(i) ==
  /\ w[i].pc = "copy"
  /\ w[i].off < Len(w[i].src.data)
  /\ LET data == w[i].src.data
         to == IF w[i].off + ChunkLen < Len(data)
               THEN w[i].off + ChunkLen ELSE Len(data)
         chunk == SubSeq(data, w[i].off + 1, to)
     IN  /\ fs' = [fs EXCEPT ![RaceFile].content = WriteAt(@, w[i].off, chunk)]
         /\ w' = [w EXCEPT ![i].off = to]
  /\ UNCHANGED <<finished, last, nops>>

\* io.Copy reads end-of-file: the copy loop has finished.
RaceCopyDone(i) ==
  /\ w[i].pc = "copy"
  /\ w[i].off = Len(w[i].src.data)
  /\ fs' = [fs EXCEPT ![RaceFile].putN = Len(w[i].src.data),
                      ![RaceFile].putOk = TRUE]
  /\ w' = [w EXCEPT ![i].pc = "chmod"]
  /\ finished' = Append(finished, i)
  /\ UNCHANGED <<last, nops>>

\* f.Chmod(mode) when mode is not 0, the deferred f.Close(), and the return.
RaceChmod(i) ==
  /\ w[i].pc = "chmod"
  /\ fs' = IF w[i].mode.perm # 0 THEN Chmod(fs, RaceFile, w[i].mode) ELSE fs
  /\ w' = [w EXCEPT ![i].pc = "done"]
  /\ UNCHANGED <<finished, last, nops>>

NextRace ==
  \/ \E i \in Writers : RaceEnsure(i)
  \/ \E i \in Writers : RaceCreate(i)
  \/ \E i \in Writers : RaceWrite(i)
  \/ \E i \in Writers : RaceCopyDone(i)
  \/ \E i \in Writers : RaceChmod(i)

SpecRace == InitRace /\ [][NextRace]_vars

(***************************************************************************)
(* SpecRead: a Put and a Get for the same file, each in its own goroutine. *)
(* The Put is call 1, taken one OS call at a time as in SpecRace; the Get  *)
(* is call 2: os.Stat (line 60), os.Open (line 67), and then the reads its *)
(* caller makes on the handle returned at line 100.                        *)
(***************************************************************************)
PutCall == 1

GetCall == 2

\* The Get and its caller: position, error, the handle's offset, the bytes
\* read so far, and whether a read met bytes from before the Put's create.
Reader ==
  [pc |-> "stat", err |-> "ok", off |-> 0, seen |-> <<>>, old |-> FALSE]

InitRead ==
  /\ fs \in RaceStores
  /\ w \in {[i \in Writers |-> IF i = PutCall THEN p ELSE Reader] :
              p \in [pc : {"ensure"},
                     src : {s \in Sources : ~s.fails},
                     mode : {m \in Modes : ~m.dir},
                     off : {0}, err : {"ok"}, clean : {FALSE}]}
  /\ finished = <<>>
  /\ last = [op |-> "none"]
  /\ nops = 0

\* os.Stat(fp) and the two error returns (lines 60-66).
ReadStat ==
  /\ w[GetCall].pc = "stat"
  /\ LET e == Stat(fs, RaceFile)
     IN  w' = [w EXCEPT ![GetCall].pc = IF e = "ok" THEN "open" ELSE "closed",
                        ![GetCall].err = IF e = "ENOENT" THEN "NotFound" ELSE e]
  /\ UNCHANGED <<fs, finished, last, nops>>

\* os.Open(fp); the node is a file, and the handle is returned (lines 67-72,
\* 100).  Nothing waits for a Put in progress.
ReadOpen ==
  /\ w[GetCall].pc = "open"
  /\ LET e == Stat(fs, RaceFile)
     IN  w' = [w EXCEPT ![GetCall].pc = IF e = "ok" THEN "read" ELSE "closed",
                        ![GetCall].err = e]
  /\ UNCHANGED <<fs, finished, last, nops>>

\* One Read on the handle: up to ChunkLen of the bytes the file holds past
\* the handle's offset.
ReadSome ==
  /\ w[GetCall].pc = "read"
  /\ w[GetCall].off < Len(fs[RaceFile].content)
  /\ LET content == fs[RaceFile].content
         to == IF w[GetCall].off + ChunkLen < Len(content)
               THEN w[GetCall].off + ChunkLen ELSE Len(content)
     IN  w' = [w EXCEPT ![GetCall].seen = @ \o SubSeq(content, w[GetCall].off + 1, to),
                        ![GetCall].off = to,
                        ![GetCall].old = @ \/ w[PutCall].pc \in {"ensure", "create"}]
  /\ UNCHANGED <<fs, finished, last, nops>>

\* A Read at or past the end of the file: end-of-file, and the caller closes.
ReadEOF ==
  /\ w[GetCall].pc = "read"
  /\ w[GetCall].off >= Len(fs[RaceFile].content)
  /\ w' = [w EXCEPT ![GetCall].pc = "closed"]
  /\ UNCHANGED <<fs, finished, last, nops>>

NextRead ==
  \/ RaceEnsure(PutCall)
  \/ RaceCreate(PutCall)
  \/ RaceWrite(PutCall)
  \/ RaceCopyDone(PutCall)
  \/ RaceChmod(PutCall)
  \/ ReadStat
  \/ ReadOpen
  \/ ReadSome
  \/ ReadEOF

SpecRead == InitRead /\ [][NextRead]_vars

(***************************************************************************)
(* Claims checked under Spec.                                              *)
(***************************************************************************)
\* The call that just returned.
Returned(op) == last.op = op

\* The step in which a call of op returns.
Returns(op) == nops' # nops /\ last'.op = op

\* The namespace directory of an identity.
Namespace(id) == Root \o <<id>>

\* The immediate children of a directory, by path length.
ChildrenOf(f, fp) == {q \in DOMAIN f : Len(q) = Len(fp) + 1 /\ IsPrefix(fp, q)}

\* The (identity, path) pairs that resolve to a directory.
DirTargets ==
  {t \in IDs \X RelPaths :
     LET fp == Join(Root, t[1], t[2])
     IN  Stat(fs, fp) = "ok" /\ fs[fp].kind = "dir"}

\* C1: a successful Put of a file followed at once by Get of the same
\* (identity, path) returns a handle that reads exactly the bytes written,
\* whatever the path held before.
C1_PutThenGet ==
  (Returned("Put") /\ ~last.mode.dir /\ last.err = "ok") =>
    \A ord \in GetOrders(fs, last.id, last.path), fault \in BOOLEAN :
      LET g == GetRes(fs, last.id, last.path, ord, fault)
      IN  /\ g.err = "ok"
          /\ g.handle.kind = "file"
          /\ g.handle.bytes = last.src.data

\* A successful Put has replaced longer content by shorter content.
C1_Witness ==
  /\ Returned("Put") /\ ~last.mode.dir /\ last.err = "ok"
  /\ last.pre.kind = "file"
  /\ last.pre.size > Len(last.src.data)

\* C2: after Delete(id, p), Get yields NotFound at p and at every path
\* below p.
C2_DeleteThenGet ==
  Returned("Delete") =>
    \A q \in RelPaths :
      IsPrefix(last.fp, Join(Root, last.id, q)) =>
        \A ord \in GetOrders(fs, last.id, q) :
          GetRes(fs, last.id, q, ord, FALSE).err = "NotFound"

\* C3: a call issued for an identity creates, modifies, removes and reads
\* nodes of that identity's namespace only.
C3_Confined ==
  [][nops' # nops =>
       /\ \A q \in (DOMAIN fs) \cup (DOMAIN fs') :
            (q \notin DOMAIN fs \/ q \notin DOMAIN fs' \/ fs[q] # fs'[q])
              => IsPrefix(Namespace(last'.id), q)
       /\ (last'.op = "Get" /\ last'.err = "ok")
              => IsPrefix(Namespace(last'.id), last'.fp)]_vars

\* C4: when a Put returns, when a Get returns an error and when a Get
\* returns a directory listing, no handle the call opened is still open.
C4_NoLeak ==
  (Returned("Put") \/ (Returned("Get") /\ (last.err # "ok" \/ last.handle.isDir)))
    => last.leaked = 0

\* C5: Get of a directory returns a listing with exactly one entry for each
\* immediate child and none for anything deeper; the node a successful Put
\* has just written is listed in its parent.
C5_Listing ==
  /\ \A t \in DirTargets :
       \A ord \in GetOrders(fs, t[1], t[2]) :
         LET fp == Join(Root, t[1], t[2])
             g == GetRes(fs, t[1], t[2], ord, FALSE)
             doc == g.handle.doc
         IN  /\ g.err = "ok" /\ g.handle.kind = "dir"
             /\ \A q \in ChildrenOf(fs, fp) :
                  Cardinality({i \in DOMAIN doc : doc[i].name = Base(q)}) = 1
             /\ \A i \in DOMAIN doc :
                  Append(fp, doc[i].name) \in ChildrenOf(fs, fp)
  /\ (Returned("Put") /\ last.err = "ok") =>
       \A t \in DirTargets :
         Join(Root, t[1], t[2]) = Parent(last.fp) =>
           \A ord \in GetOrders(fs, t[1], t[2]) :
             LET doc == GetRes(fs, t[1], t[2], ord, FALSE).handle.doc
             IN  \E i \in DOMAIN doc : doc[i].name = Base(last.fp)

\* A Put has returned, and some directory that Get can list has two
\* children and a deeper descendant.
C5_Witness ==
  /\ Returned("Put") /\ last.err = "ok"
  /\ \E t \in DirTargets :
       LET fp == Join(Root, t[1], t[2])
       IN  /\ Cardinality(ChildrenOf(fs, fp)) >= 2
           /\ \E q \in DOMAIN fs : IsPrefix(fp, q) /\ Len(q) > Len(fp) + 1

\* C6: in every listing, an entry's isDir flag tells files from
\* directories, and the size of a file whose most recent Put succeeded is
\* the length of the content that Put was given.
C6_ListingSize ==
  \A t \in DirTargets :
    \A ord \in GetOrders(fs, t[1], t[2]) :
      LET fp == Join(Root, t[1], t[2])
          doc == GetRes(fs, t[1], t[2], ord, FALSE).handle.doc
      IN  \A i \in DOMAIN doc :
            LET q == Append(fp, doc[i].name)
            IN  /\ doc[i].isDir = (fs[q].kind = "dir")
                /\ (fs[q].kind = "file" /\ fs[q].putOk)
                     => doc[i].size = fs[q].putN
                /\ (Returned("Put") /\ last.err = "ok" /\ ~last.mode.dir
                      /\ q = last.fp)
                     => doc[i].size = Len(last.src.data)

\* A successful Put has replaced a file's content by content of another
\* length, and the file's directory can be listed.
C6_Witness ==
  /\ Returned("Put") /\ ~last.mode.dir /\ last.err = "ok"
  /\ last.pre.kind = "file"
  /\ last.pre.size # Len(last.src.data)
  /\ Len(last.src.data) > 0
  /\ \E t \in DirTargets : Join(Root, t[1], t[2]) = Parent(last.fp)

\* C7: Delete at a path where no node exists returns no error and leaves
\* the store unchanged.
C7_DeleteAbsent ==
  [][(Returns("Delete") /\ last'.pre.kind = "none")
       => (last'.err = "ok" /\ fs' = fs)]_vars

\* C9: Get at a path where no node exists fails with NotFound and returns
\* no handle.
C9_GetAbsent ==
  (Returned("Get") /\ last.pre.kind = "none")
    => (last.err = "NotFound" /\ last.handle = NoHandle)

C11_HandleStat ==
  (Returned("Get") /\ last.err = "ok") =>
    /\ last.handle.isDir = (fs[last.fp].kind = "dir")
    /\ last.handle.name = Base(last.fp)
    /\ last.handle.isDir =>
         /\ last.handle.kind = "dir"
         /\ Len(last.handle.doc) = Cardinality(ChildrenOf(fs, last.fp))
         /\ \A q \in ChildrenOf(fs, last.fp) :
              \E i \in DOMAIN last.handle.doc :
                last.handle.doc[i].name = Base(q)
    /\ ~last.handle.isDir =>
         /\ last.handle.kind = "file"
         /\ last.handle.bytes = fs[last.fp].content

\* Get has returned the listing of a directory that has a file with bytes
\* in it.
C11_Witness ==
  /\ Returned("Get") /\ last.err = "ok" /\ last.handle.isDir
  /\ \E q \in ChildrenOf(fs, last.fp) :
       fs[q].kind = "file" /\ fs[q].content # <<>>

\* C13: a Put of a file whose source fails after delivering k bytes returns
\* an error, having read the source once; when the target was a file, or
\* whenever the copy was reached, the target holds exactly those k bytes,
\* its permission bits are not those of the call but the ones it had (or
\* the default of a new file), and the handle is released.
C13_SourceFails ==
  [][(Returns("Put") /\ ~last'.mode.dir /\ last'.src.fails) =>
       /\ last'.err # "ok"
       /\ last'.pre.kind = "file" => last'.err = "EIO"
       /\ last'.err = "EIO" =>
            /\ last'.nread = Len(last'.src.data)
            /\ fs'[last'.fp].kind = "file"
            /\ fs'[last'.fp].content = last'.src.data
            /\ fs'[last'.fp].perm =
                 (IF last'.pre.kind = "file" THEN fs[last'.fp].perm
                  ELSE CreatePerm)
            /\ last'.leaked = 0]_vars

\* A Put whose source failed has returned, and the file held more bytes
\* before than the source delivered.
C13_Witness ==
  /\ Returned("Put") /\ ~last.mode.dir /\ last.src.fails
  /\ last.err = "EIO"
  /\ last.pre.kind = "file"
  /\ last.pre.size > Len(last.src.data)
  /\ Len(last.src.data) > 0

\* C14: after a successful Put of a file the permission bits are the given
\* mode when it is not 0, and with mode 0 the bits the file had before or
\* the default of a new file; a Put that fails before its copy is complete
\* applies no mode.
C14_Permissions ==
  [][(Returns("Put") /\ ~last'.mode.dir /\ Exists(fs', last'.fp)
        /\ fs'[last'.fp].kind = "file") =>
       LET before == IF last'.pre.kind = "file" THEN fs[last'.fp].perm
                     ELSE CreatePerm
       IN  /\ (last'.err = "ok" /\ last'.mode.perm # 0)
                => fs'[last'.fp].perm = last'.mode.perm
           /\ (last'.err = "ok" /\ last'.mode.perm = 0)
                => fs'[last'.fp].perm = before
           /\ last'.err # "ok" => fs'[last'.fp].perm = before]_vars

\* A successful Put with mode 0 has rewritten a file whose permission bits
\* are not the default.
C14_Witness ==
  /\ Returned("Put") /\ ~last.mode.dir /\ last.err = "ok"
  /\ last.mode.perm = 0
  /\ last.pre.kind = "file"
  /\ fs[last.fp].perm # CreatePerm

\* C15: Delete(id, p) leaves every node that is neither the node p resolves
\* to nor below it as it was; among them the nodes of other identities'
\* namespaces and, for a non-empty p, the store root.
C15_DeleteFrame ==
  [][Returns("Delete") =>
       /\ \A q \in DOMAIN fs :
            ~IsPrefix(last'.fp, q) => (Exists(fs', q) /\ fs'[q] = fs[q])
       /\ \A q \in DOMAIN fs :
            (\E j \in IDs \ {last'.id} : IsPrefix(Namespace(j), q))
              => (Exists(fs', q) /\ fs'[q] = fs[q])
       /\ last'.path # <<>> => Exists(fs', Root)]_vars

\* C16: a Put with a file mode at a path that resolves to a directory
\* returns an error, reads nothing from r and changes nothing.
C16_PutOnDir ==
  [][(Returns("Put") /\ ~last'.mode.dir /\ last'.pre.kind = "dir") =>
       /\ last'.err # "ok"
       /\ last'.nread = 0
       /\ fs' = fs]_vars

\* A Put with a file mode and bytes to write has returned from a directory
\* that has a child.
C16_Witness ==
  /\ Returned("Put") /\ ~last.mode.dir /\ last.pre.kind = "dir"
  /\ last.src.data # <<>>
  /\ ChildrenOf(fs, last.fp) # {}

\* C17: Get changes no node of the store, whatever it returns.
C17_GetReadOnly ==
  [][Returns("Get") => fs' = fs]_vars

\* Get has returned NotFound for an identity whose namespace does not
\* exist, and still does not.
C17_Witness ==
  /\ Returned("Get") /\ last.err = "NotFound"
  /\ ~Exists(fs, Namespace(last.id))

(***************************************************************************)
(* Claims checked under SpecRace.                                          *)
(***************************************************************************)
BothReturned == \A i \in Writers : w[i].pc = "done"

\* C8, as claimed: once both calls have returned, the file holds exactly
\* the content given to the call whose copy loop finished last.
C8_LastFinisherWinsAsClaimed ==
  (BothReturned /\ Len(finished) = 2) =>
    fs[RaceFile].content = w[finished[2]].src.data

\* C8, amended: it does when that call's create step ran after the other
\* call's last write.
C8_LastFinisherWins ==
  (BothReturned /\ Len(finished) = 2 /\ w[finished[2]].clean) =>
    fs[RaceFile].content = w[finished[2]].src.data

\* Both calls have returned; the one that finished last created the file
\* after the other's last write, and the other's content was longer.
C8_Witness ==
  /\ BothReturned /\ Len(finished) = 2
  /\ w[finished[2]].clean
  /\ Len(w[finished[1]].src.data) > Len(w[finished[2]].src.data)
  /\ Len(w[finished[2]].src.data) > 0

(***************************************************************************)
(* Claims checked under SpecRead.                                          *)
(***************************************************************************)
\* The Get's caller has read its handle to the end, and every byte it read
\* was written by the Put.
ReadOfPut ==
  /\ w[GetCall].pc = "closed" /\ w[GetCall].err = "ok"
  /\ ~w[GetCall].old

\* C12: nothing publishes a Put's bytes only once they are complete: what
\* a Get racing the Put of content c reads from the truncation on is a
\* prefix of c, of any length the copy loop has reached - the empty and the
\* partial ones included.
C12_ReadsPrefix ==
  ReadOfPut => IsPrefix(w[GetCall].seen, w[PutCall].src.data)

\* The Get's caller has read to the end and holds a non-empty strict prefix
\* of the content the Put was given.
C12_Witness ==
  /\ ReadOfPut
  /\ w[GetCall].seen # <<>>
  /\ Len(w[GetCall].seen) < Len(w[PutCall].src.data)

====
